---- MODULE Spec2Model ----
(***************************************************************************)
(* Model of the postmaster-go shipment client: the reflection-based        *)
(* parameter encoder (utils.go: mapStruct / mapStructNested) and the       *)
(* shipment lifecycle operations built on it (Shipment, Create, Get, Void, *)
(* Track, ListShipments, FindShipments).                                   *)
(*                                                                         *)
(* Go values are modelled as tagged records:                               *)
(*   [kind |-> "int", n]            [kind |-> "string", s]                 *)
(*   [kind |-> "float32", neg, halves]   (sign bit, magnitude in halves)   *)
(*   [kind |-> "bool", b]           [kind |-> "slice", elems]              *)
(*   [kind |-> "ptr", isNil, elem]  [kind |-> "invalid"] (nil interface)   *)
(*   [kind |-> "struct", type, f]   (f: field values in declaration order) *)
(* A map[string]string is a set of <<key, value>> pairs with unique keys.  *)
(***************************************************************************)
EXTENDS Integers, Sequences, FiniteSets, TLC

VARIABLES arg, out, heap, maker, last

vars == <<arg, out, heap, maker, last>>

-----------------------------------------------------------------------------
(* Bounds of the model *)

\* deepest chain of pointers wrapped around an encoder input
MaxPtrDepth == 2
\* number of Shipment objects the client session may hold
MaxShipments == 1
\* longest result list a list/search response decodes into
MaxResults == 1

-----------------------------------------------------------------------------
(* Value constructors *)

IntV(n) == [kind |-> "int", n |-> n]
StrV(s) == [kind |-> "string", s |-> s]
F32V(neg, halves) == [kind |-> "float32", neg |-> neg, halves |-> halves]
BoolV(b) == [kind |-> "bool", b |-> b]
SliceV(elems) == [kind |-> "slice", elems |-> elems]
NilPtr == [kind |-> "ptr", isNil |-> TRUE]
PtrTo(v) == [kind |-> "ptr", isNil |-> FALSE, elem |-> v]
NilInterface == [kind |-> "invalid"]
StructV(type, f) == [kind |-> "struct", type |-> type, f |-> f]

\* a struct field: declared name (as characters), struct tags ("" when absent)
Field(name, json, dontMap) == [Name |-> name, json |-> json, dontMap |-> dontMap]

-----------------------------------------------------------------------------
(* Record shapes *)

ShipmentType ==
    << Field(<<"p">>, "", "true"),
       Field(<<"I","d">>, "", "true"),
       Field(<<"T","o">>, "", ""),
       Field(<<"F","r","o","m">>, "", ""),
       Field(<<"P","a","c","k","a","g","e">>, "", ""),
       Field(<<"C","a","r","r","i","e","r">>, "", ""),
       Field(<<"S","e","r","v","i","c","e">>, "", ""),
       Field(<<"S","t","a","t","u","s">>, "", "true"),
       Field(<<"T","r","a","c","k","i","n","g">>, "", "true"),
       Field(<<"P","a","c","k","a","g","e","C","o","u","n","t">>, "package_count", ""),
       Field(<<"C","r","e","a","t","e","d","A","t">>, "created_at", ""),
       Field(<<"C","o","s","t">>, "", "true"),
       Field(<<"P","r","e","p","a","i","d">>, "", "true") >>

PackageType ==
    << Field(<<"I","d">>, "", "true"),
       Field(<<"N","a","m","e">>, "", ""),
       Field(<<"W","i","d","t","h">>, "", ""),
       Field(<<"H","e","i","g","h","t">>, "", ""),
       Field(<<"L","e","n","g","t","h">>, "", ""),
       Field(<<"W","e","i","g","h","t">>, "", ""),
       Field(<<"C","u","s","t","o","m","s">>, "", ""),
       Field(<<"D","i","m","e","n","s","i","o","n","U","n","i","t","s">>, "dimension_units", "true"),
       Field(<<"W","e","i","g","h","t","U","n","i","t","s">>, "weight_units", "true"),
       Field(<<"T","y","p","e">>, "", "true"),
       Field(<<"L","a","b","e","l","U","r","l">>, "label_url", "true") >>

CustomContentType ==
    << Field(<<"D","e","s","c","r","i","p","t","i","o","n">>, "", ""),
       Field(<<"Q","u","a","n","t","i","t","y">>, "", ""),
       Field(<<"V","a","l","u","e">>, "", ""),
       Field(<<"W","e","i","g","h","t">>, "", ""),
       Field(<<"W","e","i","g","h","t","U","n","i","t","s">>, "weight_units", ""),
       Field(<<"H","S","T","a","r","i","f","f","N","u","m","b","e","r">>, "hs_tariff_number", ""),
       Field(<<"C","o","u","n","t","r","y","O","f","O","r","i","g","i","n">>, "country_of_origin", "") >>

CustomType ==
    << Field(<<"T","y","p","e">>, "", ""),
       Field(<<"C","o","m","m","e","n","t","s">>, "", ""),
       Field(<<"I","n","v","o","i","c","e","N","u","m","b","e","r">>, "invoice_number", ""),
       Field(<<"C","o","n","t","e","n","t","s">>, "", "") >>

\* Address is declared outside these sources; the encoder sees it as a nested
\* record (Shipment.To, Shipment.From).
AddressType ==
    << Field(<<"C","i","t","y">>, "", "") >>

\* Postmaster is declared outside these sources; makeUrl reads its BaseUrl.
PostmasterType ==
    << Field(<<"B","a","s","e","U","r","l">>, "", "") >>

\* The Archive shape is an encoder input only: a record holding a whole
\* Package in a field marked dontMap, next to an encodable one.
ArchiveType ==
    << Field(<<"O","l","d">>, "", "true"),
       Field(<<"N","o","t","e">>, "", "") >>

Types ==
    [ Shipment |-> ShipmentType, Package |-> PackageType,
      CustomContent |-> CustomContentType, Custom |-> CustomType,
      Address |-> AddressType, Postmaster |-> PostmasterType,
      Archive |-> ArchiveType ]

-----------------------------------------------------------------------------
(* Library functions the encoder calls *)

UpperChars == <<"A","B","C","D","E","F","G","H","I","J","K","L","M",
                "N","O","P","Q","R","S","T","U","V","W","X","Y","Z">>
LowerChars == <<"a","b","c","d","e","f","g","h","i","j","k","l","m",
                "n","o","p","q","r","s","t","u","v","w","x","y","z">>

\* strings.ToLower, one character
ToLowerChar(c) ==
    IF \E i \in 1..Len(UpperChars) : UpperChars[i] = c
    THEN LowerChars[CHOOSE i \in 1..Len(UpperChars) : UpperChars[i] = c]
    ELSE c

RECURSIVE ToLower(_)
\* strings.ToLower(t.Name): the declared name, character by character
ToLower(name) ==
    IF name = <<>> THEN "" ELSE ToLowerChar(Head(name)) \o ToLower(Tail(name))

RECURSIVE NameOf(_)
\* t.Name as a string
NameOf(name) ==
    IF name = <<>> THEN "" ELSE Head(name) \o NameOf(Tail(name))

\* the declared field names of every record shape
FieldNames ==
    [ty \in DOMAIN Types |-> [i \in 1..Len(Types[ty]) |-> NameOf(Types[ty][i].Name)]]

\* the position of the field called name in a record of shape ty
FieldIndex(ty, name) == CHOOSE i \in 1..Len(Types[ty]) : FieldNames[ty][i] = name

\* the value of the field called name in record s
FieldOf(s, name) == s.f[FieldIndex(s.type, name)]

\* a field is exported when its name starts with an upper-case letter
IsExported(t) == \E i \in 1..Len(UpperChars) : UpperChars[i] = Head(t.Name)

DigitChars == <<"0","1","2","3","4","5","6","7","8","9">>

RECURSIVE Itoa(_)
\* strconv.Itoa / fmt %v (%d) of an int
Itoa(n) ==
    IF n < 0 THEN "-" \o Itoa(0 - n)
    ELSE IF n < 10 THEN DigitChars[n + 1]
    ELSE Itoa(n \div 10) \o DigitChars[(n % 10) + 1]

\* fmt %v (%g, shortest) of a float32 that is a multiple of one half
FormatFloat32(v) ==
    (IF v.neg THEN "-" ELSE "")
        \o Itoa(v.halves \div 2)
        \o (IF v.halves % 2 = 1 THEN ".5" ELSE "")

RECURSIVE JoinSpace(_)
JoinSpace(elems) ==
    IF elems = <<>> THEN ""
    ELSE IF Len(elems) = 1 THEN Head(elems)
    ELSE Head(elems) \o " " \o JoinSpace(Tail(elems))

\* fmt.Sprintf("%v", v.Interface()) for the scalar kinds of the record shapes
SprintfV(v) ==
    CASE v.kind = "int" -> Itoa(v.n)
      [] v.kind = "float32" -> FormatFloat32(v)
      [] v.kind = "string" -> v.s
      [] v.kind = "bool" -> IF v.b THEN "true" ELSE "false"
      [] v.kind = "slice" -> "[" \o JoinSpace(v.elems) \o "]"

-----------------------------------------------------------------------------
(* map[string]string *)

EmptyMap == {}
Keys(m) == {kv[1] : kv \in m}

\* result[k] = v
MapSet(m, k, v) == {kv \in m : kv[1] # k} \cup {<<k, v>>}

\* for mk, mv := range m { result[mk] = mv }
MapMerge(result, m) == {kv \in result : kv[1] \notin Keys(m)} \cup m

-----------------------------------------------------------------------------
(* The parameter encoder *)

\* outcome of a call: a panic, or the returned mapping
Panicked == [panic |-> TRUE, m |-> EmptyMap]
Returned(m) == [panic |-> FALSE, m |-> m]

RECURSIVE Unwrap(_)
UnwrapOnceMutant(s) ==
    IF s.kind = "ptr" /\ ~s.isNil THEN s.elem ELSE s
\* for reflect.TypeOf(s).Kind() == reflect.Ptr { s = reflect.ValueOf(s).Elem().Interface() }
\* A nil interface has no type (TypeOf returns nil, Kind() panics); Elem() of
\* a nil pointer is the zero Value, whose Interface() panics.
Unwrap(s) ==
    IF s.kind = "invalid" THEN NilInterface
    ELSE IF s.kind = "ptr"
         THEN IF s.isNil THEN NilInterface ELSE Unwrap(s.elem)
         ELSE s

\* t.Tag.Get("dontMap") == "true"
DontMapMutant(t) == t.dontMap = "true" /\ t.json = ""
DontMap(t) == t.dontMap = "true"

\* the name a field is emitted under
EffectiveNameMutant(t, baseName) ==
    IF t.json # "" THEN t.json ELSE ToLower(t.Name)
EffectiveName(t, baseName) ==
    LET name == IF t.json # "" THEN t.json ELSE ToLower(t.Name)
    IN  IF baseName # "" THEN baseName \o "[" \o name \o "]" ELSE name

\* "Omit all zeros"
OmitMutant(k, value) == (k = "int" /\ value = "0") \/ value = ""
Omit(k, value) ==
    ((k = "float32" \/ k = "int") /\ value = "0") \/ value = ""

RECURSIVE mapStructNested(_, _), mapFields(_, _, _, _)

\* the loop over the fields of s, from field i on, result so far in result
mapFields(s, baseName, i, result) ==
    IF i > Len(Types[s.type]) THEN Returned(result)
    ELSE LET t == Types[s.type][i]
             v == s.f[i]
         IN  IF DontMap(t) THEN mapFields(s, baseName, i + 1, result)
             ELSE LET name == EffectiveName(t, baseName)
                  IN  IF ~IsExported(t) THEN Panicked   \* v.Interface()
                      ELSE IF v.kind = "struct"
                      THEN LET m == mapStructNested(v, name)
                           IN  IF m.panic THEN Panicked
                               ELSE mapFields(s, baseName, i + 1,
                                              MapMerge(result, m.m))
                      ELSE LET value == SprintfV(v)
                           IN  IF Omit(v.kind, value)
                               THEN mapFields(s, baseName, i + 1, result)
                               ELSE mapFields(s, baseName, i + 1,
                                              MapSet(result, name, value))

mapStructNested(s, baseName) ==
    LET u == Unwrap(s)
    IN  IF u.kind # "struct" THEN Panicked      \* NumField of a non-struct
        ELSE mapFields(u, baseName, 1, EmptyMap)

mapStruct(s) == mapStructNested(s, "")

-----------------------------------------------------------------------------
(* Encoder inputs *)

PosZero == F32V(FALSE, 0)
NegZero == F32V(TRUE, 0)

AddressOf(city) == StructV("Address", <<StrV(city)>>)

CustomContentOf(c) ==
    StructV("CustomContent",
            << StrV(c.description), StrV(""), StrV(c.value), c.weight,
               StrV(c.units), StrV(""), StrV("") >>)

CustomOf(c) ==
    StructV("Custom", << StrV(""), StrV(""), StrV(c.invoice), CustomContentOf(c) >>)

\* r: the response-only fields; c: the customs declaration
PackageOf(r, name, width, c) ==
    StructV("Package",
            << IntV(r.packageId), StrV(name), width, PosZero, PosZero, PosZero,
               CustomOf(c), StrV(r.units), StrV(r.units), StrV(r.type),
               StrV(r.labelUrl) >>)

ShipmentOf(p, r, city, pkg, carrier, count) ==
    StructV("Shipment",
            << p, IntV(r.id), AddressOf(city), AddressOf(""), pkg, StrV(carrier),
               StrV(""), StrV(r.status), SliceV(r.tracking), IntV(count), IntV(0),
               IntV(r.cost), BoolV(r.prepaid) >>)

BlankResponse ==
    [id |-> -1, status |-> "", tracking |-> <<>>, cost |-> 0, prepaid |-> FALSE,
     packageId |-> 0, units |-> "", type |-> "", labelUrl |-> ""]
FilledResponse ==
    [id |-> 7, status |-> "Voided", tracking |-> <<"1Z">>, cost |-> 5,
     prepaid |-> TRUE, packageId |-> 3, units |-> "in", type |-> "box",
     labelUrl |-> "u"]

NoCustoms ==
    [description |-> "", value |-> "", weight |-> PosZero, units |-> "", invoice |-> ""]
GiftOnly ==
    [description |-> "Gift", value |-> "", weight |-> PosZero, units |-> "", invoice |-> ""]
FullCustoms ==
    [description |-> "Gift", value |-> "0", weight |-> F32V(FALSE, 1), units |-> "kg",
     invoice |-> "42"]

Client(baseUrl) == PtrTo(StructV("Postmaster", <<StrV(baseUrl)>>))

InputShipments ==
    { ShipmentOf(IF r = BlankResponse THEN NilPtr ELSE Client(""), r, city,
                 PackageOf(r, "", width, c), carrier, count) :
        r \in {BlankResponse, FilledResponse},
        city \in {"", "Austin"},
        width \in {PosZero, NegZero, F32V(FALSE, 3), F32V(TRUE, 4)},
        c \in {NoCustoms, GiftOnly, FullCustoms},
        carrier \in {"", "ups", "0"},
        count \in {0, 2, -3, 10} }

InputArchives ==
    { StructV("Archive", << PackageOf(FilledResponse, name, PosZero, c), StrV(note) >>) :
        name \in {"", "crate"}, c \in {NoCustoms, FullCustoms}, note \in {"", "kept"} }

\* values that are no record, however many pointers are removed
InputNonRecords ==
    { NilInterface, NilPtr, IntV(0), IntV(3), StrV(""), StrV("ups"), PosZero,
      BoolV(TRUE), SliceV(<<"1Z">>) }

RECURSIVE Wrap(_, _)
\* v behind d pointers
Wrap(v, d) == IF d = 0 THEN v ELSE PtrTo(Wrap(v, d - 1))

EncInputs ==
    { Wrap(v, d) : v \in InputShipments \cup InputArchives \cup InputNonRecords,
                   d \in 0..MaxPtrDepth }

-----------------------------------------------------------------------------
(* The encoder applied to one input *)

NotCalled == [called |-> FALSE, panic |-> FALSE, m |-> EmptyMap]
Outcome(r) == [called |-> TRUE, panic |-> r.panic, m |-> r.m]

NoCall == [op |-> "none", results |-> <<>>]

EncInit ==
    /\ arg \in EncInputs
    /\ out = NotCalled
    /\ heap = <<>>
    /\ maker = <<>>
    /\ last = NoCall

CallMapStruct ==
    /\ ~out.called
    /\ out' = Outcome(mapStruct(arg))
    /\ UNCHANGED <<arg, heap, maker, last>>

EncNext == CallMapStruct

EncSpec == EncInit /\ [][EncNext]_vars

-----------------------------------------------------------------------------
(* Vocabulary of the encoder claims *)

RECURSIVE Pointee(_)
\* the value at the end of a chain of non-nil pointers
Pointee(v) == IF v.kind = "ptr" /\ ~v.isNil THEN Pointee(v.elem) ELSE v

IsRecord(v) == Pointee(v).kind = "struct"

\* the exposed name of a field, else its declared name in lower case
ExposedName(t) == IF t.json # "" THEN t.json ELSE ToLower(t.Name)

\* the key of the field named n in a record emitted under prefix p
KeyUnder(p, n) == IF p = "" THEN n ELSE p \o "[" \o n \o "]"

IsNumeric(v) == v.kind \in {"int", "float32"}

\* the zero value of the field's type
IsZeroValue(v) ==
    CASE v.kind = "int" -> v.n = 0
      [] v.kind = "float32" -> v.halves = 0 /\ ~v.neg
      [] v.kind = "string" -> v.s = ""

\* decimal renderings of the numbers the inputs hold
Decimal(v) ==
    CASE v = IntV(2) -> "2"
      [] v = IntV(-3) -> "-3"
      [] v = IntV(10) -> "10"
      [] v = F32V(FALSE, 1) -> "0.5"
      [] v = F32V(FALSE, 3) -> "1.5"
      [] v = F32V(TRUE, 4) -> "-2"
      [] v = NegZero -> "-0"

Entries(m, k) == {kv \in m : kv[1] = k}

RECURSIVE AllKeys(_, _)
\* every key a record under prefix p could be given, were nothing left out
AllKeys(s, p) ==
    UNION { LET k == KeyUnder(p, ExposedName(Types[s.type][i]))
            IN  {k} \cup (IF s.f[i].kind = "struct" THEN AllKeys(s.f[i], k) ELSE {}) :
            i \in 1..Len(Types[s.type]) }

RECURSIVE DontMapKeys(_, _)
\* the keys of the fields marked dontMap, and of everything beneath them
DontMapKeys(s, p) ==
    UNION { LET t == Types[s.type][i]
                k == KeyUnder(p, ExposedName(t))
            IN  IF t.dontMap = "true"
                THEN {k} \cup (IF s.f[i].kind = "struct" THEN AllKeys(s.f[i], k) ELSE {})
                ELSE IF s.f[i].kind = "struct" THEN DontMapKeys(s.f[i], k) ELSE {} :
            i \in 1..Len(Types[s.type]) }

RECURSIVE HasDontMapValue(_)
\* some field marked dontMap holds a non-zero value
HasDontMapValue(s) ==
    \E i \in 1..Len(Types[s.type]) :
        LET t == Types[s.type][i]
            v == s.f[i]
        IN  IF t.dontMap = "true"
            THEN v.kind \in {"int", "string"} /\ ~IsZeroValue(v)
            ELSE v.kind = "struct" /\ HasDontMapValue(v)

\* C1: when mapStruct returns for a record, no key of a field marked dontMap,
\* and no key of a sub-field beneath such a field, is in the mapping,
\* whatever the values of those fields.
C1_DontMapAbsent ==
    (out.called /\ IsRecord(arg)) =>
        /\ ~out.panic
        /\ Keys(out.m) \cap DontMapKeys(Pointee(arg), "") = {}

\* a record whose dontMap fields hold non-zero values (among them a whole
\* nested Package) was encoded to a non-empty mapping
C1_Witness ==
    /\ out.called /\ ~out.panic /\ out.m # {}
    /\ IsRecord(arg)
    /\ Pointee(arg).type = "Archive"
    /\ FieldOf(FieldOf(Pointee(arg), "Old"), "Name").s = "crate"
    /\ HasDontMapValue(FieldOf(Pointee(arg), "Old"))

RECURSIVE LeafKeys(_, _)
\* the keys of the emitted leaves: a leaf f of the record emitted under prefix
\* p has key f when p is empty and p[f] otherwise, so a leaf f of the nested
\* record n has key n[f] under the empty prefix and p[n][f] under prefix p
LeafKeys(s, p) ==
    UNION { LET t == Types[s.type][i]
                v == s.f[i]
                k == KeyUnder(p, ExposedName(t))
            IN  IF t.dontMap = "true" THEN {}
                ELSE IF v.kind = "struct" THEN LeafKeys(v, k)
                ELSE IF IsZeroValue(v) THEN {}
                ELSE {k} :
            i \in 1..Len(Types[s.type]) }

DescriptionOf(shipment) ==
    FieldOf(FieldOf(FieldOf(FieldOf(shipment, "Package"), "Customs"), "Contents"),
            "Description")

\* C2: the keys of a returned mapping are the bracket chains of the emitted
\* leaves (n[f] at the top level, p[n][f] under prefix p, to every depth); a
\* non-empty Description in the CustomContent of the Custom of a Shipment's
\* Package is emitted as package[customs][contents][description] with the
\* field's string as value.
C2_BracketChain ==
    (out.called /\ IsRecord(arg)) =>
        /\ Keys(out.m) = LeafKeys(Pointee(arg), "")
        /\ (Pointee(arg).type = "Shipment" /\ DescriptionOf(Pointee(arg)).s # "") =>
               Entries(out.m, "package[customs][contents][description]")
                   = {<<"package[customs][contents][description]",
                        DescriptionOf(Pointee(arg)).s>>}

\* a Shipment with Description "Gift" three records deep was encoded
C2_Witness ==
    /\ out.called /\ ~out.panic
    /\ IsRecord(arg)
    /\ Pointee(arg).type = "Shipment"
    /\ DescriptionOf(Pointee(arg)).s = "Gift"
    /\ <<"package[customs][contents][description]", "Gift">> \in out.m
    /\ <<"package[customs][invoice_number]", "42">> \in out.m

RECURSIVE ScalarsAsClaimed(_, _, _)
\* every encodable scalar field of s (emitted under prefix p) is in m as C3 says
ScalarsAsClaimed(s, p, m) ==
    \A i \in 1..Len(Types[s.type]) :
        LET t == Types[s.type][i]
            v == s.f[i]
            k == KeyUnder(p, ExposedName(t))
        IN  \/ t.dontMap = "true"
            \/ v.kind = "struct" /\ ScalarsAsClaimed(v, k, m)
            \/ /\ IsNumeric(v)
               /\ IF IsZeroValue(v) THEN Entries(m, k) = {}
                  ELSE Entries(m, k) = {<<k, Decimal(v)>>}
            \/ /\ v.kind = "string"
               /\ IF v.s = "" THEN Entries(m, k) = {}
                  ELSE Entries(m, k) = {<<k, v.s>>}

C9_RecordShapeOnly ==
    out.called =>
        IF IsRecord(arg)
        THEN ~out.panic /\ out.m = mapStruct(Pointee(arg)).m
        ELSE out.panic /\ out.m = EmptyMap

\* a record behind two pointers was encoded to a non-empty mapping
C9_Witness ==
    /\ out.called /\ ~out.panic /\ out.m # {}
    /\ arg.kind = "ptr" /\ ~arg.isNil
    /\ arg.elem.kind = "ptr" /\ ~arg.elem.isNil
    /\ arg.elem.elem.kind = "struct"

-----------------------------------------------------------------------------
(* The shipment lifecycle *)

\* s.Id of a Shipment nobody created yet
NoId == -1

\* the clients of the session
Clients == {Client(""), Client("http://sandbox")}

SetField(s, name, v) == [s EXCEPT !.f[FieldIndex(s.type, name)] = v]

ZeroPackage == PackageOf(BlankResponse, "", PosZero, NoCustoms)

\* new(Shipment): every field holds the zero value of its type
ZeroShipment ==
    StructV("Shipment",
            << NilPtr, IntV(0), AddressOf(""), AddressOf(""), ZeroPackage, StrV(""),
               StrV(""), StrV(""), SliceV(<<>>), IntV(0), IntV(0), IntV(0),
               BoolV(FALSE) >>)

\* func (p *Postmaster) Shipment() (s *Shipment)
NewShipment(p) == SetField(SetField(ZeroShipment, "p", p), "Id", IntV(NoId))

\* The transport (get, post, del) and its response decoder lie outside these
\* sources. A call ends with or without an error; the decoder writes the
\* fields the response carries into the exported fields of its target.
TransportErrors == {"nil", "transport"}

\* what a shipment response may carry
ShipmentPayloads ==
    { [fields |-> {}], [fields |-> {"Id", "Status"}, Id |-> 7, Status |-> "Processing"] }

\* the decoder writing a shipment response into s
Decode(s, payload) ==
    IF payload.fields = {} THEN s
    ELSE SetField(SetField(s, "Id", IntV(payload.Id)), "Status", StrV(payload.Status))

\* res["message"] after del: "" when the response carries no message
VoidMessages == {"", "OK", "Not found"}

\* what a list response decodes into: records the decoder built, p unset
ListPayloads ==
    { [k \in 1..n |-> Decode(ZeroShipment, pl)] :
        n \in 0..MaxResults, pl \in {pl \in ShipmentPayloads : pl.fields # {}} }

NoRequest == [sent |-> FALSE]
Request(method, endpoint, params) ==
    [sent |-> TRUE, method |-> method, version |-> "v1", endpoint |-> endpoint,
     params |-> params]

Id(s) == FieldOf(s, "Id").n

\* if s.Id != -1 (Create)
CreateRefusedMutant(s) == Id(s) = 0
CreateRefused(s) == Id(s) # NoId

\* if s.Id == -1 (Get, Void, Track)
MissingIdMutant(s) == Id(s) = 0
MissingId(s) == Id(s) = NoId

\* res["message"] == "OK"
VoidedMutant(message) == message # ""
Voided(message) == message = "OK"

\* for k, _ := range res.Results { res.Results[k].p = p }
AttachClientMutant(p, results) == results
AttachClient(p, results) ==
    [k \in 1..Len(results) |-> SetField(results[k], "p", p)]

\* the query parameters of ListShipments
ListParamsMutant(limit, cursor, status) ==
    (IF limit # 0 THEN {<<"limit", Itoa(limit)>>} ELSE {})
        \cup (IF cursor # "" THEN {<<"cursor", cursor>>} ELSE {})
        \cup (IF status # "" THEN {<<"status", status>>} ELSE {})
ListParams(limit, cursor, status) ==
    LET p1 == IF limit > 0 THEN MapSet(EmptyMap, "limit", Itoa(limit)) ELSE EmptyMap
        p2 == IF cursor # "" THEN MapSet(p1, "cursor", cursor) ELSE p1
    IN  IF status # "" THEN MapSet(p2, "status", status) ELSE p2

\* the query parameters of FindShipments, once q is known to be non-empty
FindParams(q, limit, cursor) ==
    LET p1 == MapSet(EmptyMap, "q", q)
        p2 == IF limit > 0 THEN MapSet(p1, "limit", Itoa(limit)) ELSE p1
    IN  IF cursor # "" THEN MapSet(p2, "cursor", cursor) ELSE p2

\* if q == "" (FindShipments)
EmptyQueryMutant(q) == FALSE
EmptyQuery(q) == q = ""

\* the record of one call: what it was given, what it returned (ret, err),
\* whether it ran the encoder, what it sent, and what the transport gave back
\* (transport: the error of get/post/del; message: res["message"])
Call(op, target, before) ==
    [op |-> op, target |-> target, before |-> before, args |-> <<>>,
     ret |-> "none", err |-> "nil", request |-> NoRequest, encoded |-> FALSE,
     transport |-> "none", message |-> "", results |-> <<>>]

Init ==
    /\ heap = <<>>
    /\ maker = <<>>
    /\ last = NoCall
    /\ arg = NilInterface
    /\ out = NotCalled

\* s := p.Shipment()
Shipment(p) ==
    /\ Len(heap) < MaxShipments
    /\ heap' = Append(heap, NewShipment(p))
    /\ maker' = Append(maker, [client |-> p, via |-> "Shipment"])
    /\ last' = [Call("Shipment", Len(heap) + 1, ZeroShipment) EXCEPT !.ret = "s"]
    /\ UNCHANGED <<arg, out>>

\* the caller names a carrier on a shipment it holds
SetCarrier(i) ==
    /\ MissingId(heap[i])
    /\ FieldOf(heap[i], "Carrier").s = ""
    /\ heap' = [heap EXCEPT ![i] = SetField(@, "Carrier", StrV("ups"))]
    /\ last' = Call("SetCarrier", i, heap[i])
    /\ UNCHANGED <<maker, arg, out>>

\* s.Create()
Create(i) ==
    LET s == heap[i]
    IN  /\ IF CreateRefused(s)
           THEN /\ last' = [Call("Create", i, s) EXCEPT
                               !.ret = "nil", !.err = "precondition"]
                /\ UNCHANGED heap
           ELSE LET params == mapStruct(PtrTo(s))
                IN  \E err \in TransportErrors, payload \in ShipmentPayloads :
                        /\ ~params.panic
                        /\ heap' = [heap EXCEPT ![i] = Decode(s, payload)]
                        /\ last' = [Call("Create", i, s) EXCEPT
                                       !.ret = "s", !.err = err, !.transport = err, !.encoded = TRUE,
                                       !.request = Request("POST", "shipments", params.m)]
        /\ UNCHANGED <<maker, arg, out>>

\* s.Get()
Get(i) ==
    LET s == heap[i]
    IN  /\ IF MissingId(s)
           THEN /\ last' = [Call("Get", i, s) EXCEPT
                               !.ret = "nil", !.err = "precondition"]
                /\ UNCHANGED heap
           ELSE \E err \in TransportErrors, payload \in ShipmentPayloads :
                    /\ heap' = [heap EXCEPT ![i] = Decode(s, payload)]
                    /\ last' = [Call("Get", i, s) EXCEPT
                                   !.ret = "s", !.err = err, !.transport = err,
                                   !.request = Request("GET", "shipments/" \o Itoa(Id(s)),
                                                       EmptyMap)]
        /\ UNCHANGED <<maker, arg, out>>

\* s.Void()
Void(i) ==
    LET s == heap[i]
    IN  /\ IF MissingId(s)
           THEN /\ last' = [Call("Void", i, s) EXCEPT
                               !.ret = "false", !.err = "precondition"]
                /\ UNCHANGED heap
           ELSE \E err \in TransportErrors, message \in VoidMessages :
                    /\ heap' = IF Voided(message)
                               THEN [heap EXCEPT ![i] = SetField(s, "Status", StrV("Voided"))]
                               ELSE heap
                    /\ last' = [Call("Void", i, s) EXCEPT
                                   !.ret = IF Voided(message) THEN "true" ELSE "false",
                                   !.err = err, !.transport = err,
                                   !.message = message,
                                   !.request = Request("DELETE",
                                                       "shipments/" \o Itoa(Id(s)) \o "/void",
                                                       EmptyMap)]
        /\ UNCHANGED <<maker, arg, out>>

\* s.Track()
Track(i) ==
    LET s == heap[i]
    IN  /\ IF MissingId(s)
           THEN last' = [Call("Track", i, s) EXCEPT
                            !.ret = "nil", !.err = "precondition"]
           ELSE \E err \in TransportErrors :
                    last' = [Call("Track", i, s) EXCEPT
                                !.ret = "res", !.err = err, !.transport = err,
                                !.request = Request("GET",
                                                    "shipments/" \o Itoa(Id(s)) \o "/track",
                                                    EmptyMap)]
        /\ UNCHANGED <<heap, maker, arg, out>>

\* what the caller may pass to the list and search calls
Limits == {-1, 0, 10}
Cursors == {"", "c2"}
Statuses == {"", "pending"}
Queries == {"", "box"}

\* the records of a response that the session still has room to hold
Fitting == {rs \in ListPayloads : Len(heap) + Len(rs) <= MaxShipments}

\* p.ListShipments(limit, cursor, status)
ListShipments(p, limit, cursor, status) ==
    \E err \in TransportErrors, decoded \in Fitting :
        LET results == AttachClient(p, decoded)
        IN  /\ heap' = heap \o results
            /\ maker' = maker \o [k \in 1..Len(results) |->
                                     [client |-> p, via |-> "list"]]
            /\ last' = [Call("ListShipments", 0, ZeroShipment) EXCEPT
                           !.args = <<limit, cursor, status>>,
                           !.ret = "res", !.err = err, !.transport = err, !.results = results,
                           !.request = Request("GET", "shipments",
                                               ListParams(limit, cursor, status))]
            /\ UNCHANGED <<arg, out>>

\* p.FindShipments(q, limit, cursor)
FindShipments(p, q, limit, cursor) ==
    IF EmptyQuery(q)
    THEN /\ last' = [Call("FindShipments", 0, ZeroShipment) EXCEPT
                        !.args = <<q, limit, cursor>>,
                        !.ret = "nil", !.err = "precondition"]
         /\ UNCHANGED <<heap, maker, arg, out>>
    ELSE \E err \in TransportErrors, decoded \in Fitting :
             LET results == AttachClient(p, decoded)
             IN  /\ heap' = heap \o results
                 /\ maker' = maker \o [k \in 1..Len(results) |->
                                          [client |-> p, via |-> "list"]]
                 /\ last' = [Call("FindShipments", 0, ZeroShipment) EXCEPT
                                !.args = <<q, limit, cursor>>,
                                !.ret = "res", !.err = err, !.transport = err, !.results = results,
                                !.request = Request("GET", "shipments/search",
                                                    FindParams(q, limit, cursor))]
                 /\ UNCHANGED <<arg, out>>

\* the list and search calls of a session
SessionLists == {<<10, "", "pending">>}
SessionFinds == {<<"", 0, "">>, <<"box", 10, "">>}

Next ==
    \/ \E p \in Clients : Shipment(p)
    \/ \E i \in 1..Len(heap) : SetCarrier(i)
    \/ \E i \in 1..Len(heap) : Create(i)
    \/ \E i \in 1..Len(heap) : Get(i)
    \/ \E i \in 1..Len(heap) : Void(i)
    \/ \E i \in 1..Len(heap) : Track(i)
    \/ \E p \in Clients, a \in SessionLists : ListShipments(p, a[1], a[2], a[3])
    \/ \E p \in Clients, a \in SessionFinds : FindShipments(p, a[1], a[2], a[3])

Spec == Init /\ [][Next]_vars

\* the list and search calls alone, over every combination of arguments
QueryNext ==
    \/ \E p \in Clients, limit \in Limits, cursor \in Cursors, status \in Statuses :
           ListShipments(p, limit, cursor, status)
    \/ \E p \in Clients, q \in Queries, limit \in Limits, cursor \in Cursors :
           FindShipments(p, q, limit, cursor)

QuerySpec == Init /\ [][QueryNext]_vars

-----------------------------------------------------------------------------
(* Claims about the lifecycle operations *)

Status(s) == FieldOf(s, "Status").s

\* C4: Create on a shipment whose Id is not -1 returns (nil, precondition
\* error), runs no encoding, sends no request and leaves the shipment as it was.
C4_CreateRefusesExisting ==
    (last.op = "Create" /\ Id(last.before) # -1) =>
        /\ last.ret = "nil"
        /\ last.err = "precondition"
        /\ ~last.encoded
        /\ ~last.request.sent
        /\ heap[last.target] = last.before

\* Create was called on a shipment that carries identifier 7
C4_Witness ==
    /\ last.op = "Create"
    /\ Id(last.before) = 7
    /\ last.err = "precondition"

\* C5: Get, Void and Track on a shipment whose Id is -1 fail with a
\* precondition error and send no request; each sends a request exactly when
\* the shipment carries another identifier.
C5_IdRequired ==
    (last.op \in {"Get", "Void", "Track"}) =>
        /\ (Id(last.before) = -1) =>
               /\ last.err = "precondition"
               /\ last.ret \in {"nil", "false"}
               /\ heap[last.target] = last.before
        /\ last.request.sent <=> (Id(last.before) # -1)
        /\ (last.err = "precondition") <=> (Id(last.before) = -1)

\* Void was refused on a shipment nobody created
C5_Witness ==
    /\ last.op = "Void"
    /\ Id(last.before) = -1
    /\ last.err = "precondition"
    /\ ~last.request.sent

\* C6 as claimed: message "OK" gives Status "Voided" and (true, nil); any other
\* message gives (false, nil) or (false, err) and leaves Status alone.
C6_AsClaimed ==
    (last.op = "Void" /\ Id(last.before) # -1) =>
        IF last.message = "OK"
        THEN /\ Status(heap[last.target]) = "Voided"
             /\ last.ret = "true"
             /\ last.err = "nil"
        ELSE /\ last.ret = "false"
             /\ last.err \in {"nil", "transport"}
             /\ Status(heap[last.target]) = Status(last.before)

\* C6, amended: message "OK" gives Status "Voided" and (true, err), any other
\* message gives (false, err) and leaves the shipment alone, err being the
\* error of the transport in both cases (nil when it did not fail).
C6_VoidResult ==
    (last.op = "Void" /\ Id(last.before) # -1) =>
        /\ last.err = last.transport
        /\ last.err \in {"nil", "transport"}
        /\ IF last.message = "OK"
           THEN /\ heap[last.target] = SetField(last.before, "Status", StrV("Voided"))
                /\ last.ret = "true"
           ELSE /\ last.ret = "false"
                /\ heap[last.target] = last.before

\* the response said "OK" while the transport reported an error
C6_Witness ==
    /\ last.op = "Void"
    /\ last.message = "OK"
    /\ last.transport = "transport"
    /\ Status(last.before) = "Processing"
    /\ Status(heap[last.target]) = "Voided"

\* C7 as claimed: key limit exactly when limit is not zero, key cursor exactly
\* when cursor is non-empty, key status exactly when status is non-empty.
C7_AsClaimed ==
    (last.op = "ListShipments") =>
        /\ Keys(last.request.params) \subseteq {"limit", "cursor", "status"}
        /\ ("limit" \in Keys(last.request.params)) <=> (last.args[1] # 0)
        /\ ("cursor" \in Keys(last.request.params)) <=> (last.args[2] # "")
        /\ ("status" \in Keys(last.request.params)) <=> (last.args[3] # "")

\* C7, amended: the parameter set holds limit (in decimal) exactly when limit
\* is greater than zero, cursor exactly when cursor is non-empty, status
\* exactly when status is non-empty, and nothing else; (0, "", "") gives the
\* empty set and (10, "", "pending") gives {limit: "10", status: "pending"}.
C7_ListParams ==
    (last.op = "ListShipments") =>
        LET params == last.request.params
        IN  /\ last.request.sent
            /\ Keys(params) \subseteq {"limit", "cursor", "status"}
            /\ Entries(params, "limit") =
                   (IF last.args[1] > 0 THEN {<<"limit", "10">>} ELSE {})
            /\ Entries(params, "cursor") =
                   (IF last.args[2] # "" THEN {<<"cursor", last.args[2]>>} ELSE {})
            /\ Entries(params, "status") =
                   (IF last.args[3] # "" THEN {<<"status", last.args[3]>>} ELSE {})
            /\ (last.args = <<0, "", "">>) => params = {}
            /\ (last.args = <<10, "", "pending">>) =>
                   params = {<<"limit", "10">>, <<"status", "pending">>}

\* ListShipments was called with a negative limit and a status
C7_Witness ==
    /\ last.op = "ListShipments"
    /\ last.args = <<-1, "", "pending">>
    /\ last.request.params = {<<"status", "pending">>}

\* C8: FindShipments with an empty query returns (nil, precondition error) and
\* sends no request, whatever limit and cursor are; with a non-empty query it
\* passes the precondition and its parameters hold q with the query as value.
C8_FindNeedsQuery ==
    (last.op = "FindShipments") =>
        IF last.args[1] = ""
        THEN /\ last.ret = "nil"
             /\ last.err = "precondition"
             /\ last.results = <<>>
             /\ ~last.request.sent
        ELSE /\ last.err # "precondition"
             /\ last.request.sent
             /\ Entries(last.request.params, "q") = {<<"q", last.args[1]>>}

\* FindShipments was refused although a limit and a cursor were given
C8_Witness ==
    /\ last.op = "FindShipments"
    /\ last.args = <<"", 10, "c2">>
    /\ last.err = "precondition"

\* C10: every shipment the session holds, made by Shipment() or returned by
\* ListShipments or FindShipments, points back at the client that produced it,
\* whatever calls were made on it since.
C10_BackReference ==
    /\ Len(maker) = Len(heap)
    /\ \A i \in 1..Len(heap) :
           /\ maker[i].client \in Clients
           /\ FieldOf(heap[i], "p") = maker[i].client
    /\ \A k \in 1..Len(last.results) : FieldOf(last.results[k], "p") \in Clients

\* a shipment that came out of a list, was voided, and then went through a
\* Get that failed in transport
C10_Witness ==
    /\ last.op = "Get"
    /\ last.err = "transport"
    /\ maker[last.target].via = "list"
    /\ Status(heap[last.target]) = "Voided"
    /\ FieldOf(heap[last.target], "p") = Client("http://sandbox")

====
